---- MODULE Spec2Model ----
(***************************************************************************)
(* Model of src/1850_pd.py: the frame loop that loads an input and a       *)
(* synthesized image, extracts their feature-layer sequences and           *)
(* aggregates them into a per-pixel perceptual difference map.             *)
(*                                                                         *)
(* Numbers are exact rationals [n, d] in lowest terms (d > 0): the         *)
(* floating-point rounding of torch is not modelled.  Tensors are 1-based  *)
(* nested sequences: a feature layer fm is indexed fm[c][i][j] (the batch  *)
(* dimension, always 1, is dropped).                                       *)
(***************************************************************************)
EXTENDS Integers, Sequences, FiniteSets, TLC

\* ------------------------------------------------------------------ bounds

\* range(1, 1851) of line 19, cut down to 1..MaxFrame
MaxFrame == 2
\* number of distinct image contents a frame file may hold
MaxImage == 2
\* activations of the stand-in extractor lie in 0..MaxVal
MaxVal == 2

\* transforms.Resize((224, 224))
InputSize == 224

\* layer counts an extractor invocation may return
LayerCounts == {1, 2}
\* channel counts of a feature layer
Channels == {1, 2, 3}
\* spatial sizes <<H, W>> of a feature layer
Sizes == {<<1, 2>>, <<2, 1>>}

\* ------------------------------------------------------- exact arithmetic

Abs(x) == IF x < 0 THEN -x ELSE x

RECURSIVE GCD(_, _)
GCD(a, b) == IF b = 0 THEN a ELSE GCD(b, a % b)

\* The operations below are functions of their operands' values, so that an
\* operand is evaluated once however often the result uses it.
Rats == [n : Int, d : Nat \ {0}]

NormOf[p \in Int \X (Nat \ {0})] ==
    LET g == GCD(Abs(p[1]), p[2])
    IN  [n |-> p[1] \div g, d |-> p[2] \div g]

\* the rational n / d in lowest terms
Norm(n, d) == NormOf[<<n, d>>]

Rat(k) == [n |-> k, d |-> 1]
Zero == Rat(0)

RatAddOf[p \in Rats \X Rats] ==
    Norm(p[1].n * p[2].d + p[2].n * p[1].d, p[1].d * p[2].d)
RatSubOf[p \in Rats \X Rats] ==
    Norm(p[1].n * p[2].d - p[2].n * p[1].d, p[1].d * p[2].d)
RatMulOf[p \in Rats \X Rats] ==
    Norm(p[1].n * p[2].n, p[1].d * p[2].d)
RatAbsOf[x \in Rats] == [n |-> Abs(x.n), d |-> x.d]
RatLeqOf[p \in Rats \X Rats] == p[1].n * p[2].d <= p[2].n * p[1].d

RatAdd(x, y) == RatAddOf[<<x, y>>]
RatSub(x, y) == RatSubOf[<<x, y>>]
RatMul(x, y) == RatMulOf[<<x, y>>]
RatAbs(x) == RatAbsOf[x]
RatDivInt(x, k) == RatMul(x, Norm(1, k))
RatLeq(x, y) == RatLeqOf[<<x, y>>]

\* ------------------------------------------------------------ tensors

NumChannels(fm) == Len(fm)
Height(fm) == Len(fm[1])
Width(fm) == Len(fm[1][1])

Min(a, b) == IF a <= b THEN a ELSE b

\* ------------------------------------- F.interpolate(mode='bilinear', align_corners=False)

\* Source coordinate of 1-based output index d when n samples are resized to
\* m: max(0, (d - 1 + 0.5) * n / m - 0.5), as a numerator over 2 * m.
SrcNum(d, n, m) ==
    LET v == (2 * d - 1) * n - m
    IN  IF v < 0 THEN 0 ELSE v

\* 1-based index of the sample at or below the source coordinate
SrcLow(d, n, m) == (SrcNum(d, n, m) \div (2 * m)) + 1

\* its neighbour, clamped at the border
SrcHigh(d, n, m) ==
    IF SrcLow(d, n, m) < n THEN SrcLow(d, n, m) + 1 ELSE SrcLow(d, n, m)

\* weight of the neighbour; the low sample gets 1 - Lambda1
Lambda1(d, n, m) == Norm(SrcNum(d, n, m) % (2 * m), 2 * m)
Lambda0(d, n, m) == RatSub(Rat(1), Lambda1(d, n, m))

\* one output sample of the plane p (p[i][j]) resized to oh x ow
BilinearAt(p, i, j, oh, ow) ==
    LET ih == Len(p)
        iw == Len(p[1])
        i0 == SrcLow(i, ih, oh)
        i1 == SrcHigh(i, ih, oh)
        j0 == SrcLow(j, iw, ow)
        j1 == SrcHigh(j, iw, ow)
        h0 == Lambda0(i, ih, oh)
        h1 == Lambda1(i, ih, oh)
        w0 == Lambda0(j, iw, ow)
        w1 == Lambda1(j, iw, ow)
        top == RatAdd(RatMul(w0, p[i0][j0]), RatMul(w1, p[i0][j1]))
        bot == RatAdd(RatMul(w0, p[i1][j0]), RatMul(w1, p[i1][j1]))
    IN  RatAdd(RatMul(h0, top), RatMul(h1, bot))

\* the whole layer fm resized to oh x ow, channel by channel
Interpolate(fm, oh, ow) ==
    [c \in 1..Len(fm) |->
        [i \in 1..oh |-> [j \in 1..ow |-> BilinearAt(fm[c], i, j, oh, ow)]]]

\* F.interpolate with align_corners=True: the corner samples are kept, the
\* source coordinate of output index d is (d - 1) * (n - 1) / (m - 1)
AlignedNum(d, n, m) == IF m = 1 THEN 0 ELSE (d - 1) * (n - 1)
AlignedDen(m) == IF m = 1 THEN 1 ELSE m - 1
AlignedLow(d, n, m) == (AlignedNum(d, n, m) \div AlignedDen(m)) + 1
AlignedHigh(d, n, m) ==
    IF AlignedLow(d, n, m) < n THEN AlignedLow(d, n, m) + 1 ELSE AlignedLow(d, n, m)
AlignedLambda1(d, n, m) == Norm(AlignedNum(d, n, m) % AlignedDen(m), AlignedDen(m))

AlignedAt(p, i, j, oh, ow) ==
    LET ih == Len(p)
        iw == Len(p[1])
        i0 == AlignedLow(i, ih, oh)
        i1 == AlignedHigh(i, ih, oh)
        j0 == AlignedLow(j, iw, ow)
        j1 == AlignedHigh(j, iw, ow)
        h1 == AlignedLambda1(i, ih, oh)
        h0 == RatSub(Rat(1), h1)
        w1 == AlignedLambda1(j, iw, ow)
        w0 == RatSub(Rat(1), w1)
        top == RatAdd(RatMul(w0, p[i0][j0]), RatMul(w1, p[i0][j1]))
        bot == RatAdd(RatMul(w0, p[i1][j0]), RatMul(w1, p[i1][j1]))
    IN  RatAdd(RatMul(h0, top), RatMul(h1, bot))

\* line 109: the input layer resized to the reference resolution
ResizeInput(fm, hh, ww) == Interpolate(fm, hh, ww)

\* mutant of ResizeSynthesized: line 110 called with align_corners=True
ResizeSynthesized_AlignCorners(fm, hh, ww) ==
    [c \in 1..Len(fm) |->
        [i \in 1..hh |-> [j \in 1..ww |-> AlignedAt(fm[c], i, j, hh, ww)]]]

\* line 110: the synthesized layer resized to the reference resolution
ResizeSynthesized(fm, hh, ww) == Interpolate(fm, hh, ww)

\* --------------------------------------------- F.l1_loss(a, b, reduction='sum')

Max(a, b) == IF a >= b THEN a ELSE b

\* torch broadcasts two vectors when their lengths agree or one of them is 1,
\* and raises a RuntimeError otherwise
Broadcastable(ca, cb) == ca = cb \/ ca = 1 \/ cb = 1

\* element k of vector v expanded to the broadcast length
Expand(v, k) == IF Len(v) = 1 THEN v[1] ELSE v[k]

RECURSIVE SumAbsDiff(_, _, _)
SumAbsDiff(va, vb, k) ==
    IF k = 0 THEN Zero
    ELSE RatAdd(SumAbsDiff(va, vb, k - 1),
                RatAbs(RatSub(Expand(va, k), Expand(vb, k))))

RECURSIVE SumDiff(_, _, _)
SumDiff(va, vb, k) ==
    IF k = 0 THEN Zero
    ELSE RatAdd(SumDiff(va, vb, k - 1), RatSub(Expand(va, k), Expand(vb, k)))

\* mutant of L1LossSum: the differences are summed without their absolute value
L1LossSum_Signed(va, vb) == SumDiff(va, vb, Max(Len(va), Len(vb)))

L1LossSum(va, vb) == SumAbsDiff(va, vb, Max(Len(va), Len(vb)))

\* the channel vector fm[0, :, h, w]
ChannelVector(fm, hh, ww) == [c \in 1..Len(fm) |-> fm[c][hh][ww]]

\* whether l1_loss accepts the two resized layers
LossDefined(fa, fb) == Broadcastable(NumChannels(fa), NumChannels(fb))

\* mutant of PixelDifference: the layer score is not divided by num_elements
PixelDifference_Unnormalized(fa, fb, hh, ww) ==
    L1LossSum(ChannelVector(fa, hh, ww), ChannelVector(fb, hh, ww))

\* pixel_difference of line 113 for the resized layers fa, fb
PixelDifference(fa, fb, hh, ww) ==
    RatDivInt(L1LossSum(ChannelVector(fa, hh, ww), ChannelVector(fb, hh, ww)),
              NumChannels(fa))

\* number of pairs zip(a, b) yields
ZipLength(a, b) == Min(Len(a), Len(b))

\* ------------------------------------------------- images and extraction

\* An image file's decoded content: an abstract pixel content and a resolution.
ImageHeight(i) == 1 + (i % 2)
ImageWidth(i) == 2 + (i % 2)
Images == {[pixels |-> i, height |-> ImageHeight(i), width |-> ImageWidth(i)] :
              i \in 1..MaxImage}
NoImage == [pixels |-> 0, height |-> 0, width |-> 0]

\* transform(image).unsqueeze(0): the content at the fixed input resolution
Transform(img) == [pixels |-> img.pixels, shape |-> <<1, 3, InputSize, InputSize>>]
NoTensor == [pixels |-> 0, shape |-> <<>>]

\* A layer shape is <<C, H, W>>; an architecture is the sequence of its layer shapes.
LayerShapes == {<<c, s[1], s[2]>> : c \in Channels, s \in Sizes}
Archs == UNION {[1..n -> LayerShapes] : n \in LayerCounts}

\* The extractor in eval mode is a deterministic function of its input tensor:
\* a stand-in activation for the network's, of the architecture's shapes.
Activation(px, l, c, i, j) == (px * (l + c + i) + j * (c + l)) % (MaxVal + 1)

Features(arch, tensor) ==
    [l \in 1..Len(arch) |->
        [c \in 1..arch[l][1] |->
            [i \in 1..arch[l][2] |->
                [j \in 1..arch[l][3] |-> Rat(Activation(tensor.pixels, l, c, i, j))]]]]

\* torch.zeros((height, width))
Zeros(hh, ww) == [i \in 1..hh |-> [j \in 1..ww |-> Zero]]

\* ------------------------------------------------------------------ state

VARIABLES
    pc,                               \* the statement the script is at
    frame_number,                     \* loop variable of line 19
    input_image,                      \* line 24
    synthesized_image,                \* line 25
    input_image_tensor,               \* line 39
    synthesized_image_tensor,         \* line 40
    feature_maps_input,               \* line 52
    feature_maps_synthesized,         \* line 53
    height,                           \* line 98
    width,                            \* line 98
    perceptual_difference_per_pixel,  \* line 101
    h,                                \* loop variable of line 104
    w,                                \* loop variable of line 105
    layer,                            \* position of the zip iterator of line 107
    perceptual_difference,            \* accumulator of line 106
    perceptual_difference_resized,    \* line 119
    outputs,                          \* frame numbers of the files savefig wrote, in order
    error,                            \* the exception that ended the run, if any
    writes                            \* writes[i][j]: assignments of line 115 to cell (i, j)

vars == <<pc, frame_number, input_image, synthesized_image, input_image_tensor,
          synthesized_image_tensor, feature_maps_input, feature_maps_synthesized,
          height, width, perceptual_difference_per_pixel, h, w, layer,
          perceptual_difference, perceptual_difference_resized, outputs, error,
          writes>>

images == <<input_image, synthesized_image>>
tensors == <<input_image_tensor, synthesized_image_tensor>>
features == <<feature_maps_input, feature_maps_synthesized>>
grid == <<height, width>>
cursor == <<h, w, layer, perceptual_difference>>
result == <<perceptual_difference_per_pixel, writes>>

\* The state of the names a frame iteration binds, before it binds them
Fresh ==
    /\ input_image = NoImage
    /\ synthesized_image = NoImage
    /\ input_image_tensor = NoTensor
    /\ synthesized_image_tensor = NoTensor
    /\ feature_maps_input = <<>>
    /\ feature_maps_synthesized = <<>>
    /\ height = 0
    /\ width = 0
    /\ perceptual_difference_per_pixel = <<>>
    /\ h = 0
    /\ w = 0
    /\ layer = 0
    /\ perceptual_difference = Zero
    /\ perceptual_difference_resized = <<>>
    /\ writes = <<>>

\* Every name a frame iteration binds is assigned again before the next
\* iteration reads it, so the model clears them when the iteration ends.
Clear ==
    /\ input_image' = NoImage
    /\ synthesized_image' = NoImage
    /\ input_image_tensor' = NoTensor
    /\ synthesized_image_tensor' = NoTensor
    /\ feature_maps_input' = <<>>
    /\ feature_maps_synthesized' = <<>>
    /\ height' = 0
    /\ width' = 0
    /\ perceptual_difference_per_pixel' = <<>>
    /\ h' = 0
    /\ w' = 0
    /\ layer' = 0
    /\ perceptual_difference' = Zero
    /\ perceptual_difference_resized' = <<>>
    /\ writes' = <<>>

Init ==
    /\ pc = "load"
    /\ frame_number = 1
    /\ outputs = <<>>
    /\ error = "none"
    /\ Fresh

\* ---------------------------------------------------------------- actions

\* Lines 20-25: Image.open(...).convert('RGB') of both files.  A missing or
\* undecodable file raises, and nothing catches the exception.
Load ==
    /\ pc = "load"
    /\ \/ /\ \E a \in Images, b \in Images :
                /\ input_image' = a
                /\ synthesized_image' = b
          /\ pc' = "preprocess"
          /\ error' = error
       \/ /\ pc' = "aborted"
          /\ error' = "InputIOError"
          /\ UNCHANGED images
    /\ UNCHANGED <<frame_number, tensors, features, grid, cursor, result,
                   perceptual_difference_resized, outputs>>

\* Lines 31-45
Preprocess ==
    /\ pc = "preprocess"
    /\ input_image_tensor' = Transform(input_image)
    /\ synthesized_image_tensor' = Transform(synthesized_image)
    /\ pc' = "extract"
    /\ UNCHANGED <<frame_number, images, features, grid, cursor, result,
                   perceptual_difference_resized, outputs, error>>

\* Lines 48-53: the model is created once per frame and invoked on both
\* tensors, so both sequences have the architecture of that one model.
Extract ==
    /\ pc = "extract"
    /\ \E resnet18 \in Archs :
          /\ feature_maps_input' = Features(resnet18, input_image_tensor)
          /\ feature_maps_synthesized' = Features(resnet18, synthesized_image_tensor)
    /\ pc' = "allocate"
    /\ UNCHANGED <<frame_number, images, tensors, grid, cursor, result,
                   perceptual_difference_resized, outputs, error>>

\* mutant of RefHeight: line 98 reads the synthesized extraction's layer 0
RefHeight_FromSynthesized(fmaps_in, fmaps_syn) == Height(fmaps_syn[1])

\* the spatial dimensions line 98 reads
RefHeight(fmaps_in, fmaps_syn) == Height(fmaps_in[1])
RefWidth(fmaps_in, fmaps_syn) == Width(fmaps_in[1])

\* Lines 98-106, up to the first pixel's reset of the accumulator
Allocate ==
    /\ pc = "allocate"
    /\ height' = RefHeight(feature_maps_input, feature_maps_synthesized)
    /\ width' = RefWidth(feature_maps_input, feature_maps_synthesized)
    /\ perceptual_difference_per_pixel' = Zeros(height', width')
    /\ writes' = [i \in 1..height' |-> [j \in 1..width' |-> 0]]
    /\ h' = 1
    /\ w' = 1
    /\ layer' = 1
    /\ perceptual_difference' = Zero
    /\ pc' = "aggregate"
    /\ UNCHANGED <<frame_number, images, tensors, features,
                   perceptual_difference_resized, outputs, error>>

\* mutant of ZipStep: the resized layers are stored back into the sequences
ZipStep_InPlace ==
    /\ pc = "aggregate"
    /\ layer <= ZipLength(feature_maps_input, feature_maps_synthesized)
    /\ LET fm_input_resized ==
               ResizeInput(feature_maps_input[layer], height, width)
           fm_synthesized_resized ==
               ResizeSynthesized(feature_maps_synthesized[layer], height, width)
       IN  /\ feature_maps_input' =
                  [feature_maps_input EXCEPT ![layer] = fm_input_resized]
           /\ feature_maps_synthesized' =
                  [feature_maps_synthesized EXCEPT ![layer] = fm_synthesized_resized]
           /\ IF LossDefined(fm_input_resized, fm_synthesized_resized)
              THEN /\ perceptual_difference' =
                          RatAdd(perceptual_difference,
                                 PixelDifference(fm_input_resized,
                                                 fm_synthesized_resized, h, w))
                   /\ layer' = layer + 1
                   /\ UNCHANGED <<pc, error>>
              ELSE /\ pc' = "aborted"
                   /\ error' = "RuntimeError"
                   /\ UNCHANGED <<layer, perceptual_difference>>
    /\ UNCHANGED <<frame_number, images, tensors, grid, h, w, result,
                   perceptual_difference_resized, outputs>>

\* Lines 107-114: one iteration of the zip loop for pixel (h, w)
ZipStep ==
    /\ pc = "aggregate"
    /\ layer <= ZipLength(feature_maps_input, feature_maps_synthesized)
    /\ LET fm_input_resized ==
               ResizeInput(feature_maps_input[layer], height, width)
           fm_synthesized_resized ==
               ResizeSynthesized(feature_maps_synthesized[layer], height, width)
       IN  IF LossDefined(fm_input_resized, fm_synthesized_resized)
           THEN /\ perceptual_difference' =
                       RatAdd(perceptual_difference,
                              PixelDifference(fm_input_resized,
                                              fm_synthesized_resized, h, w))
                /\ layer' = layer + 1
                /\ UNCHANGED <<pc, error>>
           ELSE /\ pc' = "aborted"
                /\ error' = "RuntimeError"
                /\ UNCHANGED <<layer, perceptual_difference>>
    /\ UNCHANGED <<frame_number, images, tensors, features, grid, h, w, result,
                   perceptual_difference_resized, outputs>>

\* Line 115, then the advance of the loops of lines 104-106
StorePixel ==
    /\ pc = "aggregate"
    /\ layer > ZipLength(feature_maps_input, feature_maps_synthesized)
    /\ perceptual_difference_per_pixel' =
           [perceptual_difference_per_pixel EXCEPT ![h][w] = perceptual_difference]
    /\ writes' = [writes EXCEPT ![h][w] = @ + 1]
    /\ IF w < width
       THEN /\ w' = w + 1
            /\ layer' = 1
            /\ perceptual_difference' = Zero
            /\ UNCHANGED <<h, pc>>
       ELSE IF h < height
       THEN /\ h' = h + 1
            /\ w' = 1
            /\ layer' = 1
            /\ perceptual_difference' = Zero
            /\ UNCHANGED pc
       ELSE /\ pc' = "render"
            /\ UNCHANGED cursor
    /\ UNCHANGED <<frame_number, images, tensors, features, grid,
                   perceptual_difference_resized, outputs, error>>

\* Lines 119-121
Render ==
    /\ pc = "render"
    /\ perceptual_difference_resized' =
           Interpolate(<<perceptual_difference_per_pixel>>,
                       input_image.height, input_image.width)[1]
    /\ pc' = "save"
    /\ UNCHANGED <<frame_number, images, tensors, features, grid, cursor, result,
                   outputs, error>>

\* mutant of LastFrame: the range's upper bound taken as range(1, 1850)
LastFrame_Exclusive == MaxFrame - 1

\* the last frame number range(1, 1851) yields, within the model's bound
LastFrame == MaxFrame

\* Line 151, then the next iteration of line 19.  save_dir is not created
\* (line 16 is commented out), so savefig may raise.
Save ==
    /\ pc = "save"
    /\ \/ /\ outputs' = Append(outputs, frame_number)
          /\ IF frame_number < LastFrame
             THEN /\ frame_number' = frame_number + 1
                  /\ pc' = "load"
             ELSE /\ pc' = "done"
                  /\ UNCHANGED frame_number
          /\ Clear
          /\ UNCHANGED error
       \/ /\ pc' = "aborted"
          /\ error' = "OutputIOError"
          /\ UNCHANGED <<frame_number, images, tensors, features, grid, cursor,
                         result, perceptual_difference_resized, outputs>>

Next ==
    \/ Load
    \/ Preprocess
    \/ Extract
    \/ Allocate
    \/ ZipStep
    \/ StorePixel
    \/ Render
    \/ Save

Spec == Init /\ [][Next]_vars

\* The script is one sequential process: it always takes its next step.
FairSpec == Spec /\ WF_vars(Next)

\* The aggregation of lines 98-115 applied to any two feature-layer sequences
\* (two extractor invocations that need not agree in architecture): the run
\* starts at line 98 of the first frame with the sequences already bound.
InitAgg ==
    /\ pc = "allocate"
    /\ frame_number = 1
    /\ outputs = <<>>
    /\ error = "none"
    /\ input_image \in Images
    /\ synthesized_image \in Images
    /\ input_image_tensor = Transform(input_image)
    /\ synthesized_image_tensor = Transform(synthesized_image)
    /\ \E archA \in Archs, archB \in Archs :
          /\ feature_maps_input = Features(archA, input_image_tensor)
          /\ feature_maps_synthesized = Features(archB, synthesized_image_tensor)
    /\ height = 0
    /\ width = 0
    /\ perceptual_difference_per_pixel = <<>>
    /\ h = 0
    /\ w = 0
    /\ layer = 0
    /\ perceptual_difference = Zero
    /\ perceptual_difference_resized = <<>>
    /\ writes = <<>>

SpecAgg == InitAgg /\ [][Next]_vars

\* ---------------------------------------------- the aggregation as a function

\* the feature maps and the map are bound and the pixel loop has terminated
Aggregated == pc \in {"render", "save"}

\* the pixel loop is running or has terminated
MapBound == pc \in {"aggregate", "render", "save"}

\* §3's invariant on two extractions: the same number of layers and the same
\* channel count in every layer
SameLayersAndChannels(a, b) ==
    /\ Len(a) = Len(b)
    /\ \A l \in 1..Len(a) : NumChannels(a[l]) = NumChannels(b[l])

SameRefSize(a, b) ==
    /\ Height(a[1]) = Height(b[1])
    /\ Width(a[1]) = Width(b[1])

\* Lines 106-114 for one pixel: the accumulator after the first n zip pairs,
\* each layer resized when the pixel reaches it
RECURSIVE PixelAccumulate(_, _, _, _, _)
PixelAccumulate(a, b, i, j, n) ==
    IF n = 0 THEN Zero
    ELSE RatAdd(PixelAccumulate(a, b, i, j, n - 1),
                PixelDifference(
                    ResizeInput(a[n], RefHeight(a, b), RefWidth(a, b)),
                    ResizeSynthesized(b[n], RefHeight(a, b), RefWidth(a, b)), i, j))

\* Lines 98-115 as a function of the two sequences
PerceptualDifferenceMap(a, b) ==
    [i \in 1..RefHeight(a, b) |->
        [j \in 1..RefWidth(a, b) |-> PixelAccumulate(a, b, i, j, ZipLength(a, b))]]

\* ------------------------------------------------------------------ claims

\* C1: when the two feature-layer sequences differ in length the aggregation
\* aborts and produces no difference map: no completed map exists for two
\* sequences of different lengths.
C1_LengthMismatchAborts ==
    Aggregated => Len(feature_maps_input) = Len(feature_maps_synthesized)

\* C2: when the sequences have equal length but some layer pair differs in
\* channel count (one of the counts being 1 included), the aggregation aborts
\* and produces no difference map.
C2_ChannelMismatchAborts ==
    (Aggregated /\ Len(feature_maps_input) = Len(feature_maps_synthesized))
        => \A l \in 1..Len(feature_maps_input) :
               NumChannels(feature_maps_input[l])
                   = NumChannels(feature_maps_synthesized[l])

\* C3: for sequences that satisfy the layer/channel invariant and agree in the
\* layer-0 spatial size, the map the run computed for (A, B) is, cell by
\* cell, the map of the swapped pair (B, A).
C3_Symmetric ==
    (/\ Aggregated
     /\ SameLayersAndChannels(feature_maps_input, feature_maps_synthesized)
     /\ SameRefSize(feature_maps_input, feature_maps_synthesized))
        => perceptual_difference_per_pixel
               = PerceptualDifferenceMap(feature_maps_synthesized, feature_maps_input)

\* a completed map of two different sequences that satisfy the invariant,
\* with a non-zero cell
C3_Witness ==
    /\ Aggregated
    /\ SameLayersAndChannels(feature_maps_input, feature_maps_synthesized)
    /\ SameRefSize(feature_maps_input, feature_maps_synthesized)
    /\ Len(feature_maps_input) = 2
    /\ feature_maps_input # feature_maps_synthesized
    /\ \E i \in 1..height, j \in 1..width :
           perceptual_difference_per_pixel[i][j] # Zero

\* C4: when the input and the synthesized image are identical, every cell of
\* the completed map is zero.
C4_IdenticalImagesZeroMap ==
    (Aggregated /\ input_image = synthesized_image)
        => \A i \in 1..height, j \in 1..width :
               perceptual_difference_per_pixel[i][j] = Zero

\* a completed map of two identical images whose features are not all zero
\* and whose second layer is resampled
C4_Witness ==
    /\ Aggregated
    /\ input_image = synthesized_image
    /\ feature_maps_input = feature_maps_synthesized
    /\ Len(feature_maps_input) = 2
    /\ Height(feature_maps_input[2]) # height
    /\ \E c \in 1..NumChannels(feature_maps_input[2]) :
           feature_maps_input[2][c][1][1] # Zero

\* C5: every cell of the map and the accumulator are non-negative at every
\* point of the computation, and a cell not yet written holds 0 ...
C5_NonNegative ==
    MapBound =>
        /\ RatLeq(Zero, perceptual_difference)
        /\ \A i \in 1..height, j \in 1..width :
               /\ RatLeq(Zero, perceptual_difference_per_pixel[i][j])
               /\ writes[i][j] = 0 => perceptual_difference_per_pixel[i][j] = Zero

\* ... and adding a layer never decreases the accumulator.
C5_AccumulatorGrows ==
    (pc = "aggregate" /\ layer' = layer + 1)
        => RatLeq(perceptual_difference, perceptual_difference')

\* C5: the map and the accumulator are non-negative and unwritten cells are 0
\* in every state of the computation, and no zip step decreases the accumulator.
C5_NonNegativeThroughout == []C5_NonNegative /\ [][C5_AccumulatorGrows]_vars

\* the accumulator holds a positive partial sum while a later cell is still 0
C5_Witness ==
    /\ pc = "aggregate"
    /\ layer = 2
    /\ perceptual_difference # Zero
    /\ <<h, w>> # <<height, width>>
    /\ writes[height][width] = 0

\* whether cell (i, j) precedes the pixel loop's position
Before(i, j) == i < h \/ (i = h /\ j < w)

\* C6: the map has the shape of layer 0 of the input extraction, whatever the
\* image resolution and the sizes of the other layers, and the aggregation
\* writes every cell exactly once.
C6_ShapeAndSingleWrite ==
    MapBound =>
        /\ Len(perceptual_difference_per_pixel) = Height(feature_maps_input[1])
        /\ \A i \in 1..Len(perceptual_difference_per_pixel) :
               Len(perceptual_difference_per_pixel[i]) = Width(feature_maps_input[1])
        /\ \A i \in 1..Height(feature_maps_input[1]),
              j \in 1..Width(feature_maps_input[1]) :
               writes[i][j] = IF Aggregated \/ Before(i, j) THEN 1 ELSE 0

\* a completed map where the synthesized layer 0 and the input's layer 1 have
\* another size than the input's layer 0
C6_Witness ==
    /\ Aggregated
    /\ Len(feature_maps_input) = 2
    /\ Height(feature_maps_input[2]) # Height(feature_maps_input[1])
    /\ Height(feature_maps_synthesized[1]) # Height(feature_maps_input[1])
    /\ input_image.height # synthesized_image.height
    /\ \A i \in 1..height, j \in 1..width : writes[i][j] = 1

\* sum over the channels 1..c of |ra[c][i][j] - rb[c][i][j]|
RECURSIVE C7_ChannelSum(_, _, _, _, _)
C7_ChannelSum(ra, rb, i, j, c) ==
    IF c = 0 THEN Zero
    ELSE RatAdd(C7_ChannelSum(ra, rb, i, j, c - 1),
                RatAbs(RatSub(ra[c][i][j], rb[c][i][j])))

\* sum over the layers 1..l of the channel sum divided by the layer's channel count
RECURSIVE C7_LayerSum(_, _, _)
C7_LayerSum(i, j, l) ==
    IF l = 0 THEN Zero
    ELSE RatAdd(C7_LayerSum(i, j, l - 1),
                RatDivInt(
                    C7_ChannelSum(Interpolate(feature_maps_input[l], height, width),
                                  Interpolate(feature_maps_synthesized[l], height, width),
                                  i, j, NumChannels(feature_maps_input[l])),
                    NumChannels(feature_maps_input[l])))

\* C7: for sequences that satisfy the layer/channel invariant, every stored
\* cell is the sum over all layers of the channel sum of absolute differences
\* of the resampled layers divided by that layer's channel count.
C7_SumOfNormalizedLayerScores ==
    (Aggregated /\ SameLayersAndChannels(feature_maps_input, feature_maps_synthesized))
        => \A i \in 1..height, j \in 1..width :
               perceptual_difference_per_pixel[i][j]
                   = C7_LayerSum(i, j, Len(feature_maps_input))

\* a completed map of two layers with different channel counts, more than one
\* channel each, and a non-zero second cell
C7_Witness ==
    /\ Aggregated
    /\ SameLayersAndChannels(feature_maps_input, feature_maps_synthesized)
    /\ Len(feature_maps_input) = 2
    /\ NumChannels(feature_maps_input[1]) > 1
    /\ NumChannels(feature_maps_input[2]) > NumChannels(feature_maps_input[1])
    /\ perceptual_difference_per_pixel[height][width] # Zero
    /\ perceptual_difference_per_pixel[1][1] # Zero

\* ------------------------------ the aggregation with the resizes hoisted (§9)

\* every layer resized once, before the pixel loop
HoistedResize(fmaps, hh, ww) ==
    [l \in 1..Len(fmaps) |-> Interpolate(fmaps[l], hh, ww)]

\* the accumulator of one pixel, indexing the resized layers
RECURSIVE HoistedAccumulate(_, _, _, _, _)
HoistedAccumulate(ra, rb, i, j, n) ==
    IF n = 0 THEN Zero
    ELSE RatAdd(HoistedAccumulate(ra, rb, i, j, n - 1),
                PixelDifference(ra[n], rb[n], i, j))

\* whether the hoisted aggregation completes (no zip pair makes l1_loss raise)
HoistedCompletes(a, b) ==
    \A l \in 1..ZipLength(a, b) : LossDefined(a[l], b[l])

HoistedMap(a, b) ==
    LET hh == Height(a[1])
        ww == Width(a[1])
        ra == HoistedResize(a, hh, ww)
        rb == HoistedResize(b, hh, ww)
    IN  [i \in 1..hh |->
            [j \in 1..ww |-> HoistedAccumulate(ra, rb, i, j, ZipLength(a, b))]]

\* C10: the map of the per-pixel-resizing run is, cell by cell as the cells
\* are written, the map of the aggregation that resizes every layer once
\* before the pixel loop, and the run aborts exactly when that one would ...
C10_SameAsHoisted ==
    /\ MapBound =>
           \A i \in 1..height, j \in 1..width :
               writes[i][j] = 1 =>
                   /\ HoistedCompletes(feature_maps_input, feature_maps_synthesized)
                   /\ perceptual_difference_per_pixel[i][j]
                          = HoistedMap(feature_maps_input, feature_maps_synthesized)[i][j]
    /\ Aggregated => HoistedCompletes(feature_maps_input, feature_maps_synthesized)
    /\ (pc = "aborted" /\ error = "RuntimeError")
           => ~HoistedCompletes(feature_maps_input, feature_maps_synthesized)

\* ... and the resizes of the pixel loop leave the source feature maps as they are.
C10_SourcesUnmodified ==
    pc = "aggregate" => UNCHANGED features

\* C10: resizing every layer once before the pixel loop gives the map the
\* per-pixel resizes give, and the per-pixel resizes never modify the sources.
C10_HoistedEquivalent == []C10_SameAsHoisted /\ [][C10_SourcesUnmodified]_vars

\* a completed two-pixel map whose second layer was resampled for each pixel
\* and contributes to a non-zero cell
C10_Witness ==
    /\ Aggregated
    /\ Len(feature_maps_input) = 2
    /\ Len(feature_maps_synthesized) = 2
    /\ Height(feature_maps_input[2]) # height
    /\ Height(feature_maps_synthesized[2]) # height
    /\ feature_maps_input[2] # feature_maps_synthesized[2]
    /\ perceptual_difference_per_pixel[height][width] # Zero

\* C8: an input I/O error is fatal only for its frame pair; it never aborts
\* the run as a whole.
C8_InputErrorDoesNotAbortRun ==
    ~(pc = "aborted" /\ error = "InputIOError")

\* C9: the files written are perceptual_difference_1 .. _k, one each and in
\* ascending order, k being the number of frames completed; a run that ends
\* without a failure has written one file for every frame of the range ...
C9_OutputsArePrefix ==
    /\ outputs = [k \in 1..Len(outputs) |-> k]
    /\ Len(outputs) = IF pc = "done" THEN frame_number ELSE frame_number - 1
    /\ pc = "done" => (Len(outputs) = MaxFrame /\ error = "none")

\* the order of the steps of one frame
C9_StepEdges ==
    { <<"load", "preprocess">>, <<"preprocess", "extract">>,
      <<"extract", "allocate">>, <<"allocate", "aggregate">>,
      <<"aggregate", "render">>, <<"render", "save">>,
      <<"save", "load">>, <<"save", "done">> }

\* ... the steps of a frame run in the order load, preprocess, extract,
\* aggregate, render, save, and the next frame starts only after the save ...
C9_StepOrder ==
    /\ pc' # pc => (<<pc, pc'>> \in C9_StepEdges \/ pc' = "aborted")
    /\ outputs' # outputs => (pc = "save" /\ outputs' = Append(outputs, frame_number))
    /\ frame_number' # frame_number =>
           /\ pc = "save"
           /\ pc' = "load"
           /\ frame_number' = frame_number + 1
           /\ outputs' # outputs

\* C9: frames are processed one at a time in ascending order, the outputs
\* written are always a prefix 1..k of the frame range, and the run ends, with
\* one output per frame when no step fails.
C9_Sequential ==
    /\ []C9_OutputsArePrefix
    /\ [][C9_StepOrder]_vars
    /\ <>(pc \in {"done", "aborted"})

\* the run has ended without a failure, one output per frame
C9_Witness ==
    /\ pc = "done"
    /\ error = "none"
    /\ Len(outputs) = MaxFrame
    /\ MaxFrame > 1

====
